---- MODULE Spec2Model ----
(***************************************************************************)
(* Canteen ordering backend: the order store (orders table, daily_counters *)
(* table), the token allocators of DatabaseService and the request         *)
(* handlers that write an order's status.  Every handler is split at its   *)
(* awaits on the store, so that concurrent requests interleave exactly     *)
(* where the Node.js event loop lets them.                                 *)
(*                                                                         *)
(* Time is in milliseconds since a UTC midnight ("day 0") whose epoch day  *)
(* number is a multiple of 5, so that the last six decimal digits of       *)
(* Date.now() are those of the model's clock.  Strings that the code       *)
(* builds are sequences of one-character strings.                          *)
(***************************************************************************)
EXTENDS Integers, Sequences, FiniteSets, TLC

VARIABLES now, serverTz, storeUp, orders, counters, req, last

vars == <<now, serverTz, storeUp, orders, counters, req, last>>

(* ------------------------------ bounds --------------------------------- *)

MaxOrders == 2      \* rows the orders table may hold (allocation)
MaxGuarded == 1     \* rows the orders table may hold (status operations)
MaxReq == 2         \* requests in flight at once
MaxBulk == 1        \* length of a bulk update's orderIds array
MaxCounter == 2     \* cap of a daily counter
MaxLookups == 1     \* by-token calls in flight at once (lookup)

(* ----------------------------- constants ------------------------------- *)

MS_PER_DAY == 86400000
IST_OFFSET_MS == 19800000

TOKEN_PREFIX == <<"T">>

Statuses == {"pending", "preparing", "ready", "completed"}

\* Customers who place orders, and the signed-in callers of the cancel route
Users == {"alice"}

Callers == Users \cup {"mallory"}

\* Instants the clock visits: 23:59:59.999 IST of day 0 (18:29:59.999 UTC of
\* day 0), 00:00:00.000 IST of day 1 (18:30 UTC of day 0) and 23:59:59.999 IST
\* of day 1 (18:29:59.999 UTC of day 1).
Instants == {66599999, 66600000, 152999999}

\* Time zones the server may run in (offset from UTC in ms): UTC, UTC+5:30.
ServerTzOffsets == {0, 19800000}

\* Math.random().toString(36).substr(2, 6).toUpperCase(): up to six
\* characters, fewer when the fraction is short in base 36 (0.5 gives "I").
RandomDraws == {<<"A", "B", "1", "2", "X", "Y">>, <<"I">>}

(* ------------------------- strings and numbers ------------------------- *)

Min(a, b) == IF a < b THEN a ELSE b

DigitChars == <<"0", "1", "2", "3", "4", "5", "6", "7", "8", "9">>

RECURSIVE NumToString(_)
NumToString(n) ==
    IF n < 10 THEN <<DigitChars[n + 1]>>
    ELSE NumToString(n \div 10) \o <<DigitChars[(n % 10) + 1]>>

RECURSIVE padStart(_, _, _)
padStart(s, targetLength, fill) ==
    IF Len(s) >= targetLength THEN s
    ELSE padStart(<<fill>> \o s, targetLength, fill)

\* s.slice(-n)
sliceLast(s, n) == IF Len(s) <= n THEN s ELSE SubSeq(s, Len(s) - n + 1, Len(s))

\* s.slice(0, n) and s.substr(0, n)
sliceFirst(s, n) == SubSeq(s, 1, Min(n, Len(s)))

(* ------------------------------- dates --------------------------------- *)

\* new Date().toISOString().split('T')[0]: the UTC calendar date (as a day number)
isoDate(t) == t \div MS_PER_DAY

\* d.toLocaleString('en-US', {timeZone: 'Asia/Kolkata'}): the wall clock of
\* UTC+5:30, to the second
toKolkataString(t) == ((t + IST_OFFSET_MS) \div 1000) * 1000

\* new Date(wallClockString): the string read as server-local time
parseLocal(w, tz) == w - tz

\* getFullYear / getMonth / getDate of an instant, in server-local time
localDate(t, tz) == (t + tz) \div MS_PER_DAY

\* isToday comparing the UTC calendar dates
isTodayAt_Utc(date, t, tz) == isoDate(date) = isoDate(t)

isTodayAt(date, t, tz) ==
    LET todayIndia == parseLocal(toKolkataString(t), tz)
        inputDateIndia == parseLocal(toKolkataString(date), tz)
    IN  localDate(inputDateIndia, tz) = localDate(todayIndia, tz)

\* isToday without its comparison
isToday_Always(date) == TRUE

isToday(date) == isTodayAt(date, now, serverTz)

\* The civil day (UTC+5:30) of an instant
CivilDay(t) == (t + IST_OFFSET_MS) \div MS_PER_DAY

(* ------------------------------ tokens --------------------------------- *)

\* new Date(now).toTimeString().substr(0, 8).replace(/:/g, ''): HHMMSS, server-local
timeStr(t, tz) ==
    LET ms == (t + tz) % MS_PER_DAY
        hh == ms \div 3600000
        mm == (ms % 3600000) \div 60000
        ss == (ms % 60000) \div 1000
    IN  padStart(NumToString(hh), 2, "0") \o padStart(NumToString(mm), 2, "0")
            \o padStart(NumToString(ss), 2, "0")

dailyToken(t, tz, randomPart) ==
    TOKEN_PREFIX \o <<"-">> \o sliceLast(timeStr(t, tz), 6) \o <<"-">>
        \o sliceFirst(randomPart, 4)

atomicToken(counter) == TOKEN_PREFIX \o <<"-">> \o padStart(NumToString(counter), 3, "0")

fallbackToken(t, randomPart) ==
    TOKEN_PREFIX \o <<"-">> \o sliceLast(NumToString(t), 6) \o sliceFirst(randomPart, 4)

(* ------------------------------ requests ------------------------------- *)

NoToken == <<>>

\* A request in flight: the handler's locals that survive an await.
\*   id, status : the order id and the target status handed to updateOrderStatus
\*   ids        : a bulk update's remaining orderIds
\*   seen       : the status the route's own read of the order returned
\*   at         : the instant generateDailyToken ran
\*   counter    : increment_daily_counter's new_counter, not yet committed
\*   pay        : the body of POST /verify with its calculatedTotal
NoPayment == [razorpay_order_id |-> "none", razorpay_payment_id |-> "none",
              razorpay_signature |-> <<>>, calculatedTotal |-> 0]

Idle == [op |-> "idle", pc |-> "idle", id |-> 0, status |-> "none",
         token |-> NoToken, user |-> "none", ids |-> <<>>, seen |-> "none",
         at |-> 0, counter |-> 0, pay |-> NoPayment]

\* The last response sent: the operation, its order (an allocation's counter
\* key), the token an allocation returned or a request presented, the error
\* message or "ok", the status the route read, the status its write replaced,
\* for a request refused on arrival the status it asked for, for
\* createOrder the instant its token was generated, for the counter rpc
\* the integer it returned, and what became of the e-mail the route sent.
NoResponse == [op |-> "none", id |-> 0, token |-> NoToken, result |-> "none",
               seen |-> "none", prev |-> "none", status |-> "none", at |-> 0,
               counter |-> 0, mail |-> "none"]

RespondWith(op, id, token, result, seen, prev, status) ==
    last' = [op |-> op, id |-> id, token |-> token, result |-> result,
             seen |-> seen, prev |-> prev, status |-> status,
             at |-> 0, counter |-> 0, mail |-> "none"]

Respond(op, id, token, result, seen, prev) ==
    RespondWith(op, id, token, result, seen, prev, "none")

\* createOrder's outcome: the row's id and 'ok', or the store's error code
RespondCreate(id, token, result, at) ==
    last' = [NoResponse EXCEPT !.op = "create", !.id = id, !.token = token,
                               !.result = result, !.at = at]

Reqs == 1..MaxReq

OrderIds == 1..MaxOrders

\* A new request takes the lowest free slot
FreeSlot(w) == req[w].op = "idle" /\ \A v \in 1..(w - 1) : req[v].op # "idle"

Release(w) == req' = [req EXCEPT ![w] = Idle]

(* ------------------------------- store --------------------------------- *)

\* A row with this id is stored
Found(id) == id \in 1..Len(orders)

\* getOrderById returning a row: the query has answered and found one; an
\* error of the query (other than PGRST116) is caught, logged and null returned
ReadById(id) == storeUp /\ Found(id)

\* The orders table without its UNIQUE constraint on token
TokenTaken_NoConstraint(token) == FALSE

\* The orders table's UNIQUE constraint on token
TokenTaken(token) == \E i \in 1..Len(orders) : orders[i].token = token

\* An update that also stamps created_at
WriteStatus_Restamp(id, status) ==
    orders' = [orders EXCEPT ![id].status = status, ![id].created_at = now]

\* .update({status, updated_at}).eq('id', id)
WriteStatus(id, status) == orders' = [orders EXCEPT ![id].status = status]

\* .eq('token', token).single(): the row's id, 0 when no row has the token
IdOfToken(token) ==
    IF TokenTaken(token) THEN CHOOSE i \in 1..Len(orders) : orders[i].token = token
    ELSE 0

\* getOrderByToken's query: the row's id; 0 (null) also when the query fails,
\* the error being caught and logged
ReadByToken(token) == IF storeUp THEN IdOfToken(token) ELSE 0

(* ------------------------------- Init ---------------------------------- *)

Init ==
    /\ now = 66599999
    /\ serverTz \in ServerTzOffsets
    /\ storeUp = TRUE
    /\ orders = <<>>
    /\ counters = [k \in {} |-> 0]
    /\ req = [w \in Reqs |-> Idle]
    /\ last = NoResponse

(* ------------------------------- clock --------------------------------- *)

Tick ==
    /\ \E t \in Instants : t > now /\ now' = t
    /\ UNCHANGED <<serverTz, storeUp, orders, counters, req, last>>

(* --------------------------- store outages ----------------------------- *)

\* The store stops answering: every query returns an error
StoreFails ==
    /\ storeUp /\ storeUp' = FALSE
    /\ UNCHANGED <<now, serverTz, orders, counters, req, last>>

StoreRecovers ==
    /\ ~storeUp /\ storeUp' = TRUE
    /\ UNCHANGED <<now, serverTz, orders, counters, req, last>>

(* --------------------------- order creation ---------------------------- *)

InFlight(op) == Cardinality({w \in Reqs : req[w].op = op})

\* The table, with the inserts in flight, holds fewer than cap rows
RoomFor(cap) == Len(orders) + InFlight("create") < cap

\* createOrder, up to its insert: generateDailyToken() and the check of its result
CreateOrderStart(w) ==
    /\ FreeSlot(w)
    /\ \E u \in Users, r \in RandomDraws :
          LET token == dailyToken(now, serverTz, r)
          IN  IF token = NoToken
              THEN /\ RespondCreate(0, NoToken, "Failed to generate order token", now)
                   /\ UNCHANGED req
              ELSE /\ req' = [req EXCEPT ![w] = [Idle EXCEPT !.op = "create",
                                    !.pc = "insert", !.user = u, !.at = now,
                                    !.token = token]]
                   /\ UNCHANGED last
    /\ UNCHANGED <<now, serverTz, storeUp, orders, counters>>

\* A row inserted without its token
NewOrder_NoToken(token, user, payment_id) ==
    [token |-> NoToken, created_at |-> now, status |-> "pending", user_email |-> user,
     payment_id |-> payment_id]

\* The row createOrder inserts; created_at is the table's DEFAULT NOW()
NewOrder(token, user, payment_id) ==
    [token |-> token, created_at |-> now, status |-> "pending", user_email |-> user,
     payment_id |-> payment_id]

\* What becomes of the confirmation e-mail POST /verify sends for the order it
\* created: sent, not sent (sendOrderTokenEmail returns false), or an exception;
\* createOrder called by itself sends none
OrderEmailOutcomes(pay) ==
    IF pay = NoPayment THEN {"none"} ELSE {"sent", "not sent", "throws"}

\* The e-mail step without its try/catch
afterEmail_NoCatch(result, mail) ==
    IF mail = "throws" THEN "Email sending failed" ELSE result

\* try { await emailService.send...(order) } catch (emailError) { }: the route
\* goes on to the response it had
afterEmail(result, mail) == result

\* createOrder's insert: status 'pending', created_at DEFAULT CURRENT_TIMESTAMP;
\* POST /verify then sends its e-mail and answers
CreateOrderInsert(w) ==
    /\ req[w].op = "create" /\ req[w].pc = "insert"
    /\ IF ~storeUp
       THEN /\ RespondCreate(0, req[w].token, "store error", req[w].at)
            /\ UNCHANGED orders
       ELSE IF TokenTaken(req[w].token)
       THEN /\ RespondCreate(0, req[w].token, "23505", req[w].at)
            /\ UNCHANGED orders
       ELSE /\ orders' = Append(orders, NewOrder(req[w].token, req[w].user,
                                            req[w].pay.razorpay_payment_id))
            /\ \E mail \in OrderEmailOutcomes(req[w].pay) :
                  last' = [NoResponse EXCEPT !.op = "create", !.id = Len(orders) + 1,
                                             !.token = req[w].token,
                                             !.result = afterEmail("ok", mail),
                                             !.at = req[w].at, !.mail = mail]
    /\ Release(w)
    /\ UNCHANGED <<now, serverTz, storeUp, counters>>

(* ------------------------------ cleanup -------------------------------- *)

\* 30 * 60 * 1000
THIRTY_MINUTES_MS == 1800000

\* A filter that looks at the age only
Incomplete_AnyPayment(order, thirtyMinutesAgo) == order.created_at < thirtyMinutesAgo

\* .is('payment_id', null).lt('created_at', thirtyMinutesAgo)
Incomplete(order, thirtyMinutesAgo) ==
    order.payment_id = "none" /\ order.created_at < thirtyMinutesAgo

\* cleanupIncompleteOrders, up to its delete: the select; it returns when the
\* select fails or finds nothing
CleanupFind(w) ==
    /\ FreeSlot(w)
    /\ IF storeUp /\ \E i \in 1..Len(orders) : Incomplete(orders[i], now - THIRTY_MINUTES_MS)
       THEN /\ req' = [req EXCEPT ![w] = [Idle EXCEPT !.op = "cleanup", !.pc = "delete",
                                                      !.at = now]]
            /\ UNCHANGED last
       ELSE /\ last' = [NoResponse EXCEPT !.op = "cleanup", !.result = "nothing to do",
                                          !.at = now]
            /\ UNCHANGED req
    /\ UNCHANGED <<now, serverTz, storeUp, orders, counters>>

\* cleanupIncompleteOrders' delete, with the bound computed before the select
CleanupDelete(w) ==
    /\ req[w].op = "cleanup" /\ req[w].pc = "delete"
    /\ LET Kept(order) == ~Incomplete(order, req[w].at - THIRTY_MINUTES_MS)
       IN  IF storeUp
           THEN /\ orders' = SelectSeq(orders, Kept)
                /\ last' = [NoResponse EXCEPT !.op = "cleanup", !.result = "deleted",
                               !.at = req[w].at,
                               !.counter = Len(orders) - Len(SelectSeq(orders, Kept))]
           ELSE /\ UNCHANGED orders
                /\ last' = [NoResponse EXCEPT !.op = "cleanup", !.result = "store error",
                                              !.at = req[w].at]
    /\ Release(w)
    /\ UNCHANGED <<now, serverTz, storeUp, counters>>

(* ------------------------- payment verification ------------------------ *)

\* Money is counted in thousandths of a rupee: the gateway's paise are integers,
\* an item's price is any positive number.
PAISA == 10

\* 0.01, the difference the route allows between total and payment
AMOUNT_TOLERANCE == 10

\* paymentDetails.amount / 100
paiseToRupees(paise) == paise * PAISA

\* The payments razorpay.payments.fetch knows; amounts in paise
GatewayPayments ==
    [pay_captured |-> [status |-> "captured", order_id |-> "order_A", amount |-> 6000],
     pay_authorized |-> [status |-> "authorized", order_id |-> "order_A", amount |-> 6000],
     pay_other |-> [status |-> "captured", order_id |-> "order_B", amount |-> 2000]]

OrderRefs == {"order_A", "order_B"}

PaymentRefs == DOMAIN GatewayPayments \cup {"pay_unknown"}

\* items.reduce((sum, item) => sum + item.price * item.quantity, 0), for the
\* carts a request may carry: 60.00, 60.005, 60.01, 60.02 and 20.00 rupees
CartTotals == {60000, 60005, 60010, 60020, 20000}

\* crypto.createHmac('sha256', key).update(order_id + '|' + payment_id).digest('hex')
hmac(key, order_id, payment_id) == <<key, order_id, "|", payment_id>>

\* The signatures a request may carry with its ids: the gateway's for them,
\* the gateway's for another payment of the order, and one made with a key
\* that is not the gateway's
Signatures(order_id, payment_id) ==
    {hmac("RAZORPAY_KEY_SECRET", order_id, payment_id),
     hmac("RAZORPAY_KEY_SECRET", order_id, "pay_captured"),
     hmac("guess", order_id, payment_id)}

\* A signature check that accepts everything
verifyPaymentSignature_Always(pay) == TRUE

\* verifyPaymentSignature(paymentData)
verifyPaymentSignature(pay) ==
    hmac("RAZORPAY_KEY_SECRET", pay.razorpay_order_id, pay.razorpay_payment_id)
        = pay.razorpay_signature

\* validatePaymentCompletion(paymentData): "success" or the error
validatePaymentCompletion(pay) ==
    IF ~verifyPaymentSignature(pay) THEN "Payment signature verification failed"
    ELSE IF pay.razorpay_payment_id \notin DOMAIN GatewayPayments
         THEN "Payment validation failed"
    ELSE IF GatewayPayments[pay.razorpay_payment_id].status # "captured"
         THEN "Payment not captured successfully"
    ELSE IF GatewayPayments[pay.razorpay_payment_id].order_id # pay.razorpay_order_id
         THEN "Payment order ID mismatch"
    ELSE "success"

Abs(x) == IF x < 0 THEN -x ELSE x

\* Math.abs(calculatedTotal - paidAmount) > 0.01 in double arithmetic: a
\* difference of exactly one paisa comes out just above 0.01 for some amounts
\* (1.01 - 1) and just below for others (60.01 - 60); above tells which
amountMismatch(calculatedTotal, paidAmount, above) ==
    \/ Abs(calculatedTotal - paidAmount) > AMOUNT_TOLERANCE
    \/ Abs(calculatedTotal - paidAmount) = AMOUNT_TOLERANCE /\ above

RespondVerify(pay, message) ==
    last' = [NoResponse EXCEPT !.op = "verify", !.result = message,
                               !.token = pay.razorpay_signature]

\* POST /api/payments/verify, up to createOrder's insert
VerifyPayment(w) ==
    /\ FreeSlot(w)
    /\ \E u \in Users, r \in RandomDraws, above \in BOOLEAN,
          o \in OrderRefs, p \in PaymentRefs, total \in CartTotals :
        \E sig \in Signatures(o, p) :
          LET pay == [razorpay_order_id |-> o, razorpay_payment_id |-> p,
                      razorpay_signature |-> sig, calculatedTotal |-> total]
              validationResult == validatePaymentCompletion(pay)
              token == dailyToken(now, serverTz, r)
          IN  IF validationResult # "success"
              THEN RespondVerify(pay, validationResult) /\ UNCHANGED req
              ELSE IF amountMismatch(total, paiseToRupees(GatewayPayments[p].amount), above)
              THEN RespondVerify(pay, "Payment amount mismatch") /\ UNCHANGED req
              ELSE IF token = NoToken
              THEN /\ RespondCreate(0, NoToken, "Failed to generate order token", now)
                   /\ UNCHANGED req
              ELSE /\ req' = [req EXCEPT ![w] = [Idle EXCEPT !.op = "create",
                                    !.pc = "insert", !.user = u, !.at = now,
                                    !.token = token, !.pay = pay]]
                   /\ UNCHANGED last
    /\ UNCHANGED <<now, serverTz, storeUp, orders, counters>>

(* --------------------------- atomic counter ---------------------------- *)

CounterOf(key) == IF key \in DOMAIN counters THEN counters[key] ELSE 0

\* increment_daily_counter(date_input)
increment_daily_counter(key) ==
    counters' = [k \in DOMAIN counters \cup {key} |-> IF k = key THEN CounterOf(key) + 1
                                                       ELSE counters[k]]

\* getNextAtomicCounter's key
counterKey(t) == isoDate(t)

\* The rpc's statements, one transaction per call under READ COMMITTED. The
\* variable counters holds the committed rows; a call's own write stays in its
\* slot until the call commits.

DateKeys == {counterKey(t) : t \in Instants}

\* Rows written without taking the row's lock
RowLocked_Never(key, w) == FALSE

\* Another call has written the row of key and has not committed: its UPDATE
\* holds the row's lock, or its INSERT holds the entry of the UNIQUE index
RowLocked(key, w) ==
    \E v \in Reqs \ {w} :
        req[v].op = "rpc" /\ req[v].pc = "rpc_commit" /\ req[v].id = key

\* The rpc's value as the caller receives it
RespondCounter(key, new_counter, branch) ==
    last' = [NoResponse EXCEPT !.op = "rpc", !.id = key, !.result = branch,
                               !.counter = new_counter]

\* supabase.rpc('increment_daily_counter', {date_input})
IncrementCall(w) ==
    /\ FreeSlot(w)
    /\ \E key \in DateKeys :
          /\ CounterOf(key) < MaxCounter
          /\ req' = [req EXCEPT ![w] = [Idle EXCEPT !.op = "rpc", !.pc = "rpc_update",
                                                    !.id = key]]
    /\ UNCHANGED <<now, serverTz, storeUp, orders, counters, last>>

\* UPDATE daily_counters SET counter = counter + 1 ... RETURNING counter: it
\* waits for the row's lock and then reads the committed row; a row another
\* call has inserted and not committed is not visible to it
IncrementUpdate(w) ==
    /\ req[w].op = "rpc" /\ req[w].pc = "rpc_update"
    /\ IF req[w].id \in DOMAIN counters
       THEN /\ ~RowLocked(req[w].id, w)
            /\ req' = [req EXCEPT ![w].pc = "rpc_commit", ![w].seen = "updated",
                                  ![w].counter = counters[req[w].id] + 1]
       ELSE req' = [req EXCEPT ![w].pc = "rpc_insert"]
    /\ UNCHANGED <<now, serverTz, storeUp, orders, counters, last>>

\* IF NOT FOUND: INSERT ... VALUES (date_input, 1) ON CONFLICT (date_key)
\* DO UPDATE SET counter = daily_counters.counter + 1 RETURNING counter
IncrementInsert(w) ==
    /\ req[w].op = "rpc" /\ req[w].pc = "rpc_insert"
    /\ ~RowLocked(req[w].id, w)
    /\ IF req[w].id \in DOMAIN counters
       THEN req' = [req EXCEPT ![w].pc = "rpc_commit", ![w].seen = "conflict",
                              ![w].counter = counters[req[w].id] + 1]
       ELSE req' = [req EXCEPT ![w].pc = "rpc_commit", ![w].seen = "inserted",
                              ![w].counter = 1]
    /\ UNCHANGED <<now, serverTz, storeUp, orders, counters, last>>

\* RETURN new_counter, and the call's transaction commits
IncrementCommit(w) ==
    /\ req[w].op = "rpc" /\ req[w].pc = "rpc_commit"
    /\ counters' = [k \in DOMAIN counters \cup {req[w].id} |->
                        IF k = req[w].id THEN req[w].counter ELSE counters[k]]
    /\ RespondCounter(req[w].id, req[w].counter, req[w].seen)
    /\ Release(w)
    /\ UNCHANGED <<now, serverTz, storeUp, orders>>

\* generateAtomicToken: the counter when the rpc answers, else the fallback
GenerateAtomicToken ==
    /\ \E rpcOk \in BOOLEAN, r \in RandomDraws :
          IF rpcOk
          THEN /\ CounterOf(counterKey(now)) < MaxCounter
               /\ increment_daily_counter(counterKey(now))
               /\ Respond("atomic", counterKey(now),
                          atomicToken(CounterOf(counterKey(now)) + 1), "sequential",
                          "none", "none")
          ELSE /\ UNCHANGED counters
               /\ Respond("atomic", counterKey(now), fallbackToken(now, r), "synthetic",
                          "none", "none")
    /\ UNCHANGED <<now, serverTz, storeUp, orders, req>>

(* -------------------------- updateOrderStatus -------------------------- *)

\* A failure inside updateOrderStatus: a bulk update records it and goes on,
\* every other caller lets it propagate as the response.
UosFail(w, message) ==
    IF req[w].op = "bulk"
    THEN IF req[w].ids = <<>>
         THEN /\ Respond("bulk", 0, NoToken, "ok", "none", "none")
              /\ Release(w)
         ELSE /\ req' = [req EXCEPT ![w].pc = "uos_get", ![w].id = Head(req[w].ids),
                                    ![w].ids = Tail(req[w].ids)]
              /\ UNCHANGED last
    ELSE /\ Respond(req[w].op, req[w].id, req[w].token, message, req[w].seen, "none")
         /\ Release(w)

\* updateOrderStatus, up to its update: getOrderById and the date check
UpdateOrderStatusGet(w) ==
    /\ req[w].pc = "uos_get"
    /\ IF ~ReadById(req[w].id)
       THEN UosFail(w, "Order not found")
       ELSE IF req[w].status = "completed" /\ ~isToday(orders[req[w].id].created_at)
       THEN UosFail(w, "Cannot mark previous day orders as completed")
       ELSE /\ req' = [req EXCEPT ![w].pc = "uos_write"]
            /\ UNCHANGED last
    /\ UNCHANGED <<now, serverTz, storeUp, orders, counters>>

\* What becomes of the status e-mail: the PATCH route calls
\* emailService.sendStatusUpdateEmail for ready and completed, a method the
\* e-mail service does not have, so the call throws; no other caller sends one
StatusEmailOutcomes(op, status) ==
    IF op = "patch" /\ status \in {"ready", "completed"} THEN {"throws"} ELSE {"none"}

\* updateOrderStatus's update, and what its caller does with the row; the
\* update's error is thrown on, the cancel route's as 'Failed to cancel order'
UpdateOrderStatusWrite(w) ==
    /\ req[w].pc = "uos_write"
    /\ IF ~storeUp
       THEN /\ UosFail(w, IF req[w].op = "cancel" THEN "Failed to cancel order"
                                                  ELSE "store error")
            /\ UNCHANGED orders
       ELSE /\ WriteStatus(req[w].id, req[w].status)
            /\ IF req[w].op = "bulk" /\ req[w].ids # <<>>
               THEN /\ req' = [req EXCEPT ![w].pc = "uos_get",
                                          ![w].id = Head(req[w].ids),
                                          ![w].ids = Tail(req[w].ids)]
                    /\ UNCHANGED last
               ELSE /\ IF req[w].op = "bulk"
                       THEN Respond("bulk", 0, NoToken, "ok", "none", "none")
                       ELSE \E mail \in StatusEmailOutcomes(req[w].op, req[w].status) :
                               last' = [NoResponse EXCEPT
                                            !.op = req[w].op, !.id = req[w].id,
                                            !.token = req[w].token,
                                            !.result = afterEmail("ok", mail),
                                            !.seen = req[w].seen,
                                            !.prev = orders[req[w].id].status,
                                            !.mail = mail]
                    /\ Release(w)
    /\ UNCHANGED <<now, serverTz, storeUp, counters>>

(* ------------------------------ routes --------------------------------- *)

\* The HTTP status a route's response carries: 200 or 201 with the result, the
\* statusCode of the AppError the route or its validation threw, errorHandler's
\* 409 for the store's 23505, and errorHandler's 500 for an Error that has no
\* statusCode, as updateOrderStatus throws them
httpStatus(op, result) ==
    CASE result = "ok" -> IF op = "create" THEN 201 ELSE 200
      [] result = "Order not found" -> 404
      [] result = "23505" -> 409
      [] result \in {"Validation failed", "Cannot change status",
                     "Only pending orders can be cancelled",
                     "Invalid QR data: Missing required fields", "Token mismatch",
                     "Token expired. Valid only on order date.",
                     "Token already used", "Order not ready for pickup",
                     "Order IDs array is required", "Invalid status",
                     "Payment signature verification failed",
                     "Payment validation failed", "Payment not captured successfully",
                     "Payment order ID mismatch", "Payment amount mismatch"} -> 400
      [] OTHER -> 500

UpperChars == {"A", "B", "C", "D", "E", "F", "G", "H", "I", "J", "K", "L", "M",
               "N", "O", "P", "Q", "R", "S", "T", "U", "V", "W", "X", "Y", "Z"}

\* schemas.tokenParam, the validation of the token lookup routes: the pattern
\* /^[A-Z]-\d{3}$/
schemas_tokenParam(token) ==
    /\ Len(token) = 5
    /\ token[1] \in UpperChars
    /\ token[2] = "-"
    /\ \A i \in 3..5 : \E d \in 1..10 : token[i] = DigitChars[d]

\* A uuidParam schema that is satisfied by the key the routes declare
validate_uuidParam_OrderId(paramNames) == "orderId" \in paramNames

\* validateRequest(schemas.uuidParam, 'params'): the schema requires the key
\* id; unknown keys are stripped
validate_uuidParam(paramNames) == "id" \in paramNames

validTransitions(status) ==
    CASE status = "pending" -> {"preparing", "completed"}
      [] status = "preparing" -> {"ready", "completed"}
      [] status = "ready" -> {"completed"}
      [] OTHER -> {}

\* PATCH /orders/:orderId/status, up to updateOrderStatus
PatchOrderStatus(w) ==
    /\ FreeSlot(w)
    /\ \E id \in OrderIds, status \in Statuses :
          IF ~validate_uuidParam({"orderId"})
          THEN /\ RespondWith("patch", id, NoToken, "Validation failed", "none", "none",
                              status)
               /\ UNCHANGED req
          ELSE IF ~ReadById(id)
          THEN /\ RespondWith("patch", id, NoToken, "Order not found", "none", "none",
                              status)
               /\ UNCHANGED req
          ELSE IF status \notin validTransitions(orders[id].status)
          THEN /\ RespondWith("patch", id, NoToken, "Cannot change status",
                              orders[id].status, "none", status)
               /\ UNCHANGED req
          ELSE /\ req' = [req EXCEPT ![w] = [Idle EXCEPT !.op = "patch", !.pc = "uos_get",
                                !.id = id, !.status = status, !.seen = orders[id].status]]
               /\ UNCHANGED last
    /\ UNCHANGED <<now, serverTz, storeUp, orders, counters>>

\* POST /cancel/:orderId, up to its update
CancelOrder(w) ==
    /\ FreeSlot(w)
    /\ \E id \in OrderIds, email \in Callers :
          IF ~validate_uuidParam({"orderId"})
          THEN /\ Respond("cancel", 0, NoToken, "Validation failed", "none", "none")
               /\ UNCHANGED req
          ELSE IF ~ReadById(id) \/ orders[id].user_email # email
          THEN /\ Respond("cancel", id, NoToken, "Order not found", "none", "none")
               /\ UNCHANGED req
          ELSE IF orders[id].status # "pending"
          THEN /\ Respond("cancel", id, NoToken, "Only pending orders can be cancelled",
                          orders[id].status, "none")
               /\ UNCHANGED req
          ELSE /\ req' = [req EXCEPT ![w] = [Idle EXCEPT !.op = "cancel", !.pc = "uos_write",
                                !.id = id, !.status = "completed", !.user = email,
                                !.seen = orders[id].status]]
               /\ UNCHANGED last
    /\ UNCHANGED <<now, serverTz, storeUp, orders, counters>>

\* validateOrderForCompletion without its comparison of the tokens
validateOrderForCompletion_NoTokenCheck(order, token) ==
    IF ~isToday(order.created_at) THEN "Token expired. Valid only on order date."
    ELSE IF order.status = "completed" THEN "Token already used"
    ELSE IF order.status # "ready" THEN "Order not ready for pickup"
    ELSE "valid"

\* validateOrderForCompletion without its check that the order is ready
validateOrderForCompletion_NoReadyCheck(order, token) ==
    IF order.token # token THEN "Token mismatch"
    ELSE IF ~isToday(order.created_at) THEN "Token expired. Valid only on order date."
    ELSE IF order.status = "completed" THEN "Token already used"
    ELSE "valid"

\* validateOrderForCompletion without its check for a completed order
validateOrderForCompletion_NoUsedCheck(order, token) ==
    IF order.token # token THEN "Token mismatch"
    ELSE IF ~isToday(order.created_at) THEN "Token expired. Valid only on order date."
    ELSE IF order.status # "ready" THEN "Order not ready for pickup"
    ELSE "valid"

\* validateOrderForCompletion(order, token, databaseService): "valid" or the error
validateOrderForCompletion(order, token) ==
    IF order.token # token THEN "Token mismatch"
    ELSE IF ~isToday(order.created_at) THEN "Token expired. Valid only on order date."
    ELSE IF order.status = "completed" THEN "Token already used"
    ELSE IF order.status # "ready" THEN "Order not ready for pickup"
    ELSE "valid"

\* The tokens a scanned payload may carry: a stored one, T-001, or none
QrTokens == {orders[i].token : i \in 1..Len(orders)} \cup {atomicToken(1), NoToken}

\* POST /scan-qr, up to updateOrderStatus
ScanQr(w) ==
    /\ FreeSlot(w)
    /\ \E id \in OrderIds, token \in QrTokens :
          IF token = NoToken
          THEN /\ Respond("scan", 0, NoToken, "Invalid QR data: Missing required fields",
                          "none", "none")
               /\ UNCHANGED req
          ELSE IF ~ReadById(id)
          THEN /\ Respond("scan", id, token, "Order not found", "none", "none")
               /\ UNCHANGED req
          ELSE IF validateOrderForCompletion(orders[id], token) # "valid"
          THEN /\ Respond("scan", id, token, validateOrderForCompletion(orders[id], token),
                          orders[id].status, "none")
               /\ UNCHANGED req
          ELSE /\ req' = [req EXCEPT ![w] = [Idle EXCEPT !.op = "scan", !.pc = "uos_get",
                                !.id = id, !.status = "completed", !.token = token,
                                !.seen = orders[id].status]]
               /\ UNCHANGED last
    /\ UNCHANGED <<now, serverTz, storeUp, orders, counters>>

RECURSIVE SeqsUpTo(_, _)
SeqsUpTo(S, n) ==
    IF n = 0 THEN {<<>>}
    ELSE SeqsUpTo(S, n - 1) \cup {Append(q, x) : q \in SeqsUpTo(S, n - 1), x \in S}

\* POST /orders/bulk-update, up to the first updateOrderStatus
BulkUpdate(w) ==
    /\ FreeSlot(w)
    /\ \E orderIds \in SeqsUpTo(OrderIds, MaxBulk), newStatus \in Statuses \cup {"cancelled"} :
          IF orderIds = <<>>
          THEN /\ Respond("bulk", 0, NoToken, "Order IDs array is required", "none", "none")
               /\ UNCHANGED req
          ELSE IF newStatus \notin Statuses
          THEN /\ Respond("bulk", 0, NoToken, "Invalid status", "none", "none")
               /\ UNCHANGED req
          ELSE /\ req' = [req EXCEPT ![w] = [Idle EXCEPT !.op = "bulk", !.pc = "uos_get",
                                !.id = Head(orderIds), !.ids = Tail(orderIds),
                                !.status = newStatus]]
               /\ UNCHANGED last
    /\ UNCHANGED <<now, serverTz, storeUp, orders, counters>>

(* ----------------------- updateOrderStatusByToken ---------------------- *)

\* validateTokenForPickup without its check for a completed order
validateTokenForPickup_NoCompletedCheck(token) ==
    LET id == ReadByToken(token)
    IN  IF id = 0 THEN "Token not found"
        ELSE IF ~isToday(orders[id].created_at)
        THEN "Token expired. Valid only on order date."
        ELSE "valid"

\* validateTokenForPickup(token), getOrderByToken included: "valid" or the error
validateTokenForPickup(token) ==
    LET id == ReadByToken(token)
    IN  IF id = 0 THEN "Token not found"
        ELSE IF ~isToday(orders[id].created_at)
        THEN "Token expired. Valid only on order date."
        ELSE IF orders[id].status = "completed" THEN "Order already completed"
        ELSE "valid"

\* updateOrderStatusByToken, up to its update
UpdateOrderStatusByToken(w) ==
    /\ FreeSlot(w)
    /\ \E token \in QrTokens \ {NoToken}, newStatus \in Statuses :
          IF validateTokenForPickup(token) # "valid"
          THEN /\ RespondWith("byToken", IdOfToken(token), token,
                              validateTokenForPickup(token), "none", "none", newStatus)
               /\ UNCHANGED req
          ELSE /\ req' = [req EXCEPT ![w] = [Idle EXCEPT !.op = "byToken", !.pc = "tok_write",
                                !.id = IdOfToken(token), !.token = token,
                                !.status = newStatus,
                                !.seen = orders[IdOfToken(token)].status]]
               /\ UNCHANGED last
    /\ UNCHANGED <<now, serverTz, storeUp, orders, counters>>

\* updateOrderStatusByToken's update: .eq('token', token)
UpdateOrderStatusByTokenWrite(w) ==
    /\ req[w].pc = "tok_write"
    /\ IF ~storeUp
       THEN /\ Respond("byToken", req[w].id, req[w].token, "store error", req[w].seen,
                       "none")
            /\ UNCHANGED orders
       ELSE /\ WriteStatus(IdOfToken(req[w].token), req[w].status)
            /\ Respond("byToken", req[w].id, req[w].token, "ok", req[w].seen,
                       orders[IdOfToken(req[w].token)].status)
    /\ Release(w)
    /\ UNCHANGED <<now, serverTz, storeUp, counters>>

\* The token allocators and order creation
NextAlloc ==
    \/ Tick
    \/ \E w \in Reqs : RoomFor(MaxOrders) /\ CreateOrderStart(w)
    \/ \E w \in Reqs : CreateOrderInsert(w)
    \/ GenerateAtomicToken

SpecAlloc == Init /\ [][NextAlloc]_vars

\* Payment verification: the only caller of createOrder among the routes. None
\* of its checks reads the clock, which stands still here.
NextPayment ==
    \/ \E w \in Reqs : RoomFor(MaxOrders) /\ VerifyPayment(w)
    \/ \E w \in Reqs : CreateOrderInsert(w)

SpecPayment == Init /\ [][NextPayment]_vars

\* Orders created with and without a payment id, and the cleanup
NextCleanup ==
    \/ Tick
    \/ \E w \in Reqs : RoomFor(MaxOrders) /\ CreateOrderStart(w)
    \/ \E w \in Reqs : RoomFor(MaxOrders) /\ VerifyPayment(w)
    \/ \E w \in Reqs : CreateOrderInsert(w)
    \/ \E w \in Reqs : CleanupFind(w)
    \/ \E w \in Reqs : CleanupDelete(w)

SpecCleanup == Init /\ [][NextCleanup]_vars

\* The routes that send an e-mail after their write, and the bulk update
NextNotify ==
    \/ \E w \in Reqs : RoomFor(MaxGuarded) /\ VerifyPayment(w)
    \/ \E w \in Reqs : CreateOrderInsert(w)
    \/ \E w \in Reqs : PatchOrderStatus(w)
    \/ \E w \in Reqs : BulkUpdate(w)
    \/ \E w \in Reqs : UpdateOrderStatusGet(w)
    \/ \E w \in Reqs : UpdateOrderStatusWrite(w)

SpecNotify == Init /\ [][NextNotify]_vars

\* Concurrent calls of the counter rpc
NextCounter ==
    \/ \E w \in Reqs : IncrementCall(w)
    \/ \E w \in Reqs : IncrementUpdate(w)
    \/ \E w \in Reqs : IncrementInsert(w)
    \/ \E w \in Reqs : IncrementCommit(w)

SpecCounter == Init /\ [][NextCounter]_vars

\* Order creation and the by-token operations, the table holding MaxOrders rows
NextLookup ==
    \/ Tick
    \/ \E w \in Reqs : RoomFor(MaxOrders) /\ CreateOrderStart(w)
    \/ \E w \in Reqs : CreateOrderInsert(w)
    \/ \E w \in Reqs : InFlight("byToken") < MaxLookups /\ UpdateOrderStatusByToken(w)
    \/ \E w \in Reqs : UpdateOrderStatusByTokenWrite(w)

SpecLookup == Init /\ [][NextLookup]_vars

\* The reads and writes of an order while the store comes and goes
NextFaulty ==
    \/ StoreFails
    \/ StoreRecovers
    \/ \E w \in Reqs : RoomFor(MaxGuarded) /\ CreateOrderStart(w)
    \/ \E w \in Reqs : CreateOrderInsert(w)
    \/ \E w \in Reqs : ScanQr(w)
    \/ \E w \in Reqs : BulkUpdate(w)
    \/ \E w \in Reqs : InFlight("byToken") < MaxLookups /\ UpdateOrderStatusByToken(w)
    \/ \E w \in Reqs : UpdateOrderStatusGet(w)
    \/ \E w \in Reqs : UpdateOrderStatusWrite(w)
    \/ \E w \in Reqs : UpdateOrderStatusByTokenWrite(w)

SpecFaulty == Init /\ [][NextFaulty]_vars

\* The scan route against the bulk update, the clock and store outages
NextScan ==
    \/ Tick
    \/ StoreFails
    \/ StoreRecovers
    \/ \E w \in Reqs : RoomFor(MaxGuarded) /\ CreateOrderStart(w)
    \/ \E w \in Reqs : CreateOrderInsert(w)
    \/ \E w \in Reqs : ScanQr(w)
    \/ \E w \in Reqs : BulkUpdate(w)
    \/ \E w \in Reqs : UpdateOrderStatusGet(w)
    \/ \E w \in Reqs : UpdateOrderStatusWrite(w)

SpecScan == Init /\ [][NextScan]_vars

\* The customer's cancel against the vendor's bulk update
NextCancel ==
    \/ \E w \in Reqs : RoomFor(MaxGuarded) /\ CreateOrderStart(w)
    \/ \E w \in Reqs : CreateOrderInsert(w)
    \/ \E w \in Reqs : CancelOrder(w)
    \/ \E w \in Reqs : BulkUpdate(w)
    \/ \E w \in Reqs : UpdateOrderStatusGet(w)
    \/ \E w \in Reqs : UpdateOrderStatusWrite(w)

SpecCancel == Init /\ [][NextCancel]_vars

\* Order creation and the operations that write an order's status
Next ==
    \/ Tick
    \/ \E w \in Reqs : RoomFor(MaxGuarded) /\ CreateOrderStart(w)
    \/ \E w \in Reqs : CreateOrderInsert(w)
    \/ \E w \in Reqs : PatchOrderStatus(w)
    \/ \E w \in Reqs : CancelOrder(w)
    \/ \E w \in Reqs : ScanQr(w)
    \/ \E w \in Reqs : BulkUpdate(w)
    \/ \E w \in Reqs : UpdateOrderStatusByToken(w)
    \/ \E w \in Reqs : UpdateOrderStatusGet(w)
    \/ \E w \in Reqs : UpdateOrderStatusWrite(w)
    \/ \E w \in Reqs : UpdateOrderStatusByTokenWrite(w)

Spec == Init /\ [][Next]_vars

(* ------------------------------- claims -------------------------------- *)

Rank(status) ==
    CASE status = "pending" -> 0
      [] status = "preparing" -> 1
      [] status = "ready" -> 2
      [] status = "completed" -> 3

Stored == 1..Len(orders)

SameCivilDay(t1, t2) == CivilDay(t1) = CivilDay(t2)

\* C1: any two distinct stored orders created on the same civil day (UTC+5:30)
\* carry different tokens, however the createOrder calls interleave.
C1_UniqueSameDayTokens ==
    \A i, j \in Stored :
        i # j /\ SameCivilDay(orders[i].created_at, orders[j].created_at)
            => orders[i].token # orders[j].token

\* Two orders of one civil day are stored
C1_Witness ==
    /\ Len(orders) = 2
    /\ SameCivilDay(orders[1].created_at, orders[2].created_at)
    /\ last.op = "create" /\ last.result = "ok"

\* C2: two token allocations for order creation that are in flight together on
\* the same civil day hold different tokens.
C2_RacingAllocationsDiffer ==
    \A v, w \in Reqs :
        v # w /\ req[v].op = "create" /\ req[w].op = "create"
              /\ SameCivilDay(req[v].at, req[w].at)
            => req[v].token # req[w].token

\* C3: no step moves a stored order's status to an earlier state of
\* pending < preparing < ready < completed.
C3_StatusNeverRegresses ==
    [][\A i \in Stored : Rank(orders'[i].status) >= Rank(orders[i].status)]_vars

\* C4: a step that changes an order's status to completed happens on the civil
\* day (UTC+5:30) the order was created on.
C4_CompletedOnlySameDay ==
    [][\A i \in Stored :
          orders[i].status # "completed" /\ orders'[i].status = "completed"
              => SameCivilDay(orders[i].created_at, now)]_vars

\* C5: once an order is completed, no step changes its status.
C5_CompletedIsTerminal ==
    [][\A i \in Stored :
          orders[i].status = "completed" => orders'[i].status = "completed"]_vars

\* C6: a QR scan reports success only for a write that replaced the status the
\* scan had read: of two requests racing on one order, the later write fails.
C6_WritesAreConditional ==
    last.op = "scan" /\ last.result = "ok" => last.prev = last.seen

\* A scan arrives and is answered at once, without a write
ScanRejected == last' # last /\ last'.op = "scan" /\ req' = req

\* The order a scan names is stored, carries the scanned token and is of today
ScanOfTodaysOrder ==
    /\ Found(last'.id)
    /\ orders[last'.id].token = last'.token
    /\ SameCivilDay(orders[last'.id].created_at, now)

\* C7: a redemption of a ready order of today is admitted, and its write sets
\* the status to completed and reports success; a redemption that follows on
\* the same day with the same token is answered 'Token already used' and
\* changes nothing.
C7_RedeemOnce ==
    [][/\ ScanRejected /\ ScanOfTodaysOrder /\ orders[last'.id].status = "completed"
            => last'.result = "Token already used" /\ orders' = orders
       /\ ScanRejected /\ ScanOfTodaysOrder => orders[last'.id].status # "ready"
       /\ \A w \in Reqs :
            /\ req[w].op = "scan" /\ req[w].pc = "uos_get" /\ req'[w] # req[w]
                  /\ SameCivilDay(orders[req[w].id].created_at, now)
                 => req'[w].pc = "uos_write"
            /\ req[w].op = "scan" /\ req[w].pc = "uos_write" /\ req'[w] # req[w]
                 => /\ orders'[req[w].id].status = "completed"
                    /\ last'.op = "scan" /\ last'.result = "ok"]_vars

\* A second scan of a completed order has been answered 'Token already used'
C7_Witness ==
    /\ last.op = "scan" /\ last.result = "Token already used"
    /\ Found(last.id)
    /\ orders[last.id].status = "completed"
    /\ orders[last.id].token = last.token

\* PREFIX, '-', then three decimal digits or more
IsSequentialToken(token) ==
    /\ Len(token) >= Len(TOKEN_PREFIX) + 4
    /\ SubSeq(token, 1, Len(TOKEN_PREFIX) + 1) = TOKEN_PREFIX \o <<"-">>
    /\ \A i \in (Len(TOKEN_PREFIX) + 2)..Len(token) :
          \E d \in 1..10 : token[i] = DigitChars[d]

\* C8: a token allocated for order creation is the prefix, '-' and the
\* allocation's number of the day in three digits; the first one is T-001.
C8_SequentialTokens ==
    \A w \in Reqs :
        req[w].op = "create"
            => /\ IsSequentialToken(req[w].token)
               /\ orders = <<>> /\ last = NoResponse /\ InFlight("create") = 1
                    => req[w].token = atomicToken(1)

\* C9: the daily counter an allocation advances is the one of the civil date
\* (UTC+5:30) of the allocation's instant.
C9_CounterKeyIsCivilDate ==
    [][\A k \in DOMAIN counters' :
          counters'[k] # CounterOf(k) => k = CivilDay(now)]_vars

\* C10: an insert of a token allocated today is rejected as a duplicate only
\* when an order of today carries the token; a token of an earlier day may be
\* used again.
C10_DuplicateOnlySameDay ==
    [][\A w \in Reqs :
          (req[w].op = "create" /\ req'[w].op = "idle" /\ last'.result = "23505"
                /\ SameCivilDay(req[w].at, now))
              => \E i \in Stored : /\ orders[i].token = req[w].token
                                   /\ SameCivilDay(orders[i].created_at, now)]_vars

\* The edges the status machine allows
LegalEdge(current, target) ==
    \/ current = "pending" /\ target \in {"preparing", "completed"}
    \/ current = "preparing" /\ target \in {"ready", "completed"}
    \/ current = "ready" /\ target = "completed"

\* A PATCH arrives and is answered at once, without a write
PatchRejected == last' # last /\ last'.op = "patch" /\ req' = req

\* C11: a PATCH of a stored order along a legal edge (to completed: on the
\* order's civil day) is admitted; a PATCH that is admitted asks for a legal
\* edge of the status it read, and a PATCH that is rejected changes no order.
C11_PatchAcceptsExactlyLegalEdges ==
    [][/\ (PatchRejected /\ Found(last'.id)
              /\ LegalEdge(orders[last'.id].status, last'.status))
            => /\ last'.status = "completed"
               /\ ~SameCivilDay(orders[last'.id].created_at, now)
       /\ PatchRejected => orders' = orders
       /\ \A w \in Reqs :
            (req[w].op = "idle" /\ req'[w].op = "patch")
                => LegalEdge(orders[req'[w].id].status, req'[w].status)]_vars

\* An updateOrderStatusByToken call is refused before its update
ByTokenRejected == last' # last /\ last'.op = "byToken" /\ req' = req

\* An order created on a civil day before today's
Stale(order) == CivilDay(order.created_at) < CivilDay(now)

\* C12: for an order created on an earlier civil day, a legal transition to
\* preparing or ready passes updateOrderStatus's checks and is written, and
\* updateOrderStatusByToken does not refuse it.
C12_StaleOrderStillAdvances ==
    [][/\ \A w \in Reqs :
            /\ (req[w].pc = "uos_get" /\ req'[w] # req[w] /\ Found(req[w].id)
                   /\ Stale(orders[req[w].id])
                   /\ req[w].status # "completed"
                   /\ LegalEdge(orders[req[w].id].status, req[w].status))
                 => req'[w].pc = "uos_write"
            /\ (req[w].pc = "uos_write" /\ req'[w] # req[w])
                 => orders'[req[w].id].status = req[w].status
       /\ (ByTokenRejected /\ Found(last'.id) /\ Stale(orders[last'.id])
              /\ LegalEdge(orders[last'.id].status, last'.status))
            => last'.status = "completed"]_vars

\* C13: a scan of an order of today that is pending or preparing, with the
\* order's token, is answered 'Order not ready for pickup' and changes nothing;
\* a scan is admitted, and writes completed, only after it read ready.
C13_RedeemOnlyReady ==
    [][/\ (ScanRejected /\ ScanOfTodaysOrder
              /\ orders[last'.id].status \in {"pending", "preparing"})
            => /\ last'.result = "Order not ready for pickup"
               /\ orders' = orders
       /\ \A w \in Reqs :
            /\ (req[w].op = "idle" /\ req'[w].op = "scan")
                 => /\ orders[req'[w].id].status = "ready"
                    /\ req'[w].seen = "ready"
                    /\ orders' = orders
            /\ (req[w].op = "scan" /\ orders' # orders)
                 => req[w].seen = "ready" \/ req'[w] = req[w]]_vars

\* A scan of a pending or preparing order of today has been answered not ready
C13_Witness ==
    /\ last.op = "scan" /\ last.result = "Order not ready for pickup"
    /\ Found(last.id)
    /\ orders[last.id].token = last.token
    /\ orders[last.id].status \in {"pending", "preparing"}
    /\ SameCivilDay(orders[last.id].created_at, now)

\* C14: a scan that presents the token of an order created on an earlier civil
\* day is answered 'Token expired' and changes nothing, whatever the order's
\* status; updateOrderStatus asked to complete such an order fails with
\* 'Cannot mark previous day orders as completed' and writes nothing, and
\* updateOrderStatusByToken refuses it as expired.
C14_StaleOrderNotCompleted ==
    [][/\ (ScanRejected /\ Found(last'.id) /\ orders[last'.id].token = last'.token
              /\ Stale(orders[last'.id]))
            => /\ last'.result = "Token expired. Valid only on order date."
               /\ orders' = orders
       /\ (ByTokenRejected /\ Found(last'.id) /\ Stale(orders[last'.id]))
            => /\ last'.result = "Token expired. Valid only on order date."
               /\ orders' = orders
       /\ \A w \in Reqs :
            /\ (req[w].op = "idle" /\ req'[w].op \in {"scan", "byToken"})
                 => ~Stale(orders[req'[w].id])
            /\ (req[w].pc = "uos_get" /\ req'[w] # req[w] /\ Found(req[w].id)
                   /\ Stale(orders[req[w].id]) /\ req[w].status = "completed")
                 => /\ req'[w].pc # "uos_write"
                    /\ orders' = orders
                    /\ \/ req[w].op = "bulk"
                       \/ last'.result = "Cannot mark previous day orders as completed"]_vars

\* A scan of a ready order of an earlier day has been answered 'Token expired'
C14_Witness ==
    /\ last.op = "scan" /\ last.result = "Token expired. Valid only on order date."
    /\ Found(last.id)
    /\ orders[last.id].token = last.token
    /\ orders[last.id].status = "ready"
    /\ Stale(orders[last.id])

\* C15: once a createOrder call of today has been given a token and answered, a
\* by-token operation on that token resolves to an order created today, never
\* to an order of an earlier day that carries the same token string.
C15_LookupWithinToday ==
    [][(last.op = "create" /\ SameCivilDay(last.at, now)
          /\ last' # last /\ last'.op = "byToken" /\ last'.token = last.token)
        => /\ Found(last'.id)
           /\ SameCivilDay(orders[last'.id].created_at, now)]_vars

\* Server time zones to compare: UTC-8, UTC, UTC+5:30, UTC+14
TzSamples == ServerTzOffsets \cup {-28800000, 50400000}

\* The instants isToday is asked about: the clock's and the stored orders'
DateSamples == Instants \cup {orders[i].created_at : i \in Stored}

\* C16: isToday(t) is true exactly when t and the current instant fall on the
\* same calendar date of UTC+5:30, in whatever time zone the server runs.
C16_IsTodayIsSameCivilDate ==
    \A d \in DateSamples :
        /\ isToday(d) <=> SameCivilDay(d, now)
        /\ \A tz \in TzSamples : isTodayAt(d, now, tz) = isToday(d)

\* A by-token call found an order created 1 ms before midnight of UTC+5:30
\* expired at midnight
C16_Witness ==
    /\ last.op = "byToken" /\ last.result = "Token expired. Valid only on order date."
    /\ Found(last.id)
    /\ orders[last.id].created_at = 66599999
    /\ now = 66600000

\* C17: every stored order carries a token, a row enters the table with its
\* token and status pending in one step, and createOrder reaches its insert
\* only with a token.
C17_RowsBornWithTokenAndPending ==
    [][/\ \A i \in Stored : orders[i].token # NoToken
       /\ \A w \in Reqs : req[w].op = "create" => req[w].token # NoToken
       /\ Len(orders') >= Len(orders)
       /\ \A i \in 1..Len(orders') :
            i > Len(orders)
                => /\ orders'[i].token # NoToken
                   /\ orders'[i].status = "pending"
                   /\ \E w \in Reqs : /\ req[w].op = "create"
                                      /\ orders'[i].token = req[w].token]_vars

\* createOrder has stored a row, which is pending and carries the token returned
C17_Witness ==
    /\ last.op = "create" /\ last.result = "ok"
    /\ Found(last.id)
    /\ orders[last.id].token = last.token
    /\ last.token # NoToken
    /\ orders[last.id].status = "pending"

\* C18: a createOrder call that obtains its token advances the daily counter
\* of the allocation's key and holds the counter's new value as its token; the
\* timestamp-and-random token stands for an allocation that left the counter
\* untouched because the counter primitive was unavailable.
C18_CreateTakesCounterToken ==
    [][\A w \in Reqs :
          req[w].op = "idle" /\ req'[w].op = "create"
              => \/ /\ counterKey(now) \in DOMAIN counters'
                    /\ counters'[counterKey(now)] = CounterOf(counterKey(now)) + 1
                    /\ req'[w].token = atomicToken(counters'[counterKey(now)])
                 \/ /\ counters' = counters
                    /\ \E r \in RandomDraws : req'[w].token = fallbackToken(now, r)]_vars

\* A call of the counter rpc returns in this step
RpcReturns(w) == req[w].op = "rpc" /\ req'[w].op = "idle"

\* C19: every call of increment_daily_counter returns, when it commits, one
\* more than the counter its date held, and leaves that value stored; the
\* counters of other dates are untouched, and nothing but a returning call
\* changes a counter. The values returned for a date are therefore 1, 2, 3, ...
\* in commit order and the stored counter is the number of completed calls.
C19_CounterLinearizable ==
    [][/\ \A w \in Reqs :
            RpcReturns(w)
                => /\ last'.op = "rpc" /\ last'.id = req[w].id
                   /\ last'.counter = CounterOf(req[w].id) + 1
                   /\ DOMAIN counters' = DOMAIN counters \cup {req[w].id}
                   /\ counters'[req[w].id] = last'.counter
                   /\ \A k \in DOMAIN counters :
                        k # req[w].id => counters'[k] = counters[k]
       /\ counters' # counters => \E w \in Reqs : RpcReturns(w)]_vars

\* Of two first calls of a date that both found no row, the second has run into
\* the first's insert and returned 2
C19_Witness ==
    /\ last.op = "rpc" /\ last.result = "conflict" /\ last.counter = 2
    /\ CounterOf(last.id) = 2

\* The four checks of a verification request, stated on the request and the
\* gateway's record of the payment
PaymentVerified(pay) ==
    /\ pay.razorpay_signature
         = hmac("RAZORPAY_KEY_SECRET", pay.razorpay_order_id, pay.razorpay_payment_id)
    /\ pay.razorpay_payment_id \in DOMAIN GatewayPayments
    /\ GatewayPayments[pay.razorpay_payment_id].status = "captured"
    /\ GatewayPayments[pay.razorpay_payment_id].order_id = pay.razorpay_order_id
    /\ Abs(pay.calculatedTotal - GatewayPayments[pay.razorpay_payment_id].amount * PAISA)
         <= PAISA

\* C20: a row is inserted only by a verification request whose signature is
\* the gateway's, whose payment is captured, belongs to the submitted order and
\* differs from the cart's total by no more than one paisa; a request answered
\* with a verification error inserts nothing.
C20_InsertOnlyAfterVerification ==
    [][/\ \A i \in 1..Len(orders') :
            i > Len(orders)
                => \E w \in Reqs :
                      /\ req[w].op = "create" /\ req'[w].op = "idle"
                      /\ PaymentVerified(req[w].pay)
                      /\ orders'[i].payment_id = req[w].pay.razorpay_payment_id
       /\ last' # last /\ last'.op = "verify" => orders' = orders /\ req' = req]_vars

\* An order paid with a captured payment is stored, and a later request whose
\* total differs from its payment has been refused
C20_Witness ==
    /\ last.op = "verify" /\ last.result = "Payment amount mismatch"
    /\ \E i \in Stored :
          /\ orders[i].payment_id \in DOMAIN GatewayPayments
          /\ GatewayPayments[orders[i].payment_id].status = "captured"

C22_ErrorKindsToHttpStatus ==
    last.op \in {"patch", "scan", "cancel"}
        => /\ last.result = "Order not found"
                => httpStatus(last.op, last.result) = 404
           /\ last.result \in {"Cannot change status", "Token already used"}
                => httpStatus(last.op, last.result) = 409
           /\ last.result \in {"Token expired. Valid only on order date.",
                               "Cannot mark previous day orders as completed"}
                => httpStatus(last.op, last.result) = 400

\* C23: a redemption or a transition is answered 'Order not found' or 'Token
\* not found' only when no stored order has the id or the token it named; a
\* read the store failed to answer is reported as a failure of another kind.
C23_StoreErrorIsNotNotFound ==
    [][(last' # last /\ last'.op \in {"scan", "byToken"})
          => /\ last'.result = "Order not found" => ~Found(last'.id)
             /\ last'.result = "Token not found" => ~TokenTaken(last'.token)]_vars

\* A request is answered with an error in this step
Rejected ==
    /\ last' # last
    /\ last'.op \in {"patch", "cancel", "scan", "byToken"}
    /\ last'.result # "ok"

\* C24: a step of a status operation keeps every stored row in its place with
\* its token, created_at, owner and payment id, changing at most its status;
\* a step that answers a request with an error changes no row.
C24_StatusWritesKeepTheRest ==
    [][/\ Len(orders') = Len(orders)
            => \A i \in Stored : [orders'[i] EXCEPT !.status = orders[i].status] = orders[i]
       /\ Len(orders') # Len(orders)
            => /\ Len(orders') = Len(orders) + 1
               /\ \A i \in Stored : orders'[i] = orders[i]
       /\ Rejected => orders' = orders]_vars

\* A scan has completed an order after the clock moved on from its creation: the
\* row still carries its token and its created_at
C24_Witness ==
    /\ last.op = "scan" /\ last.result = "ok" /\ last.prev = "ready"
    /\ Found(last.id)
    /\ orders[last.id].status = "completed"
    /\ orders[last.id].token = last.token
    /\ orders[last.id].created_at < now

\* The row is in the table before this step and not after it
Deleted(i) == \A j \in 1..Len(orders') : orders'[j].token # orders[i].token

\* C25: a row that leaves the table carries no payment id and was created more
\* than 30 minutes before the start of a cleanup that is running; a row with a
\* payment id never leaves the table.
C25_OnlyStaleUnpaidRowsDeleted ==
    [][\A i \in Stored :
          Deleted(i)
              => /\ orders[i].payment_id = "none"
                 /\ \E w \in Reqs :
                       /\ req[w].op = "cleanup"
                       /\ orders[i].created_at < req[w].at - THIRTY_MINUTES_MS]_vars

\* A cleanup has deleted a row, and a paid order as old as that is still stored
C25_Witness ==
    /\ last.op = "cleanup" /\ last.result = "deleted" /\ last.counter >= 1
    /\ \E i \in Stored :
          /\ orders[i].payment_id \in DOMAIN GatewayPayments
          /\ orders[i].created_at < last.at - THIRTY_MINUTES_MS

\* The stored orders that carry the token
Carriers(token) == {i \in Stored : orders[i].token = token}

\* C26: validateTokenForPickup answers 'Token not found' when no stored order
\* carries the token, 'Token expired. Valid only on order date.' when the order
\* that carries it is of another civil day, 'Order already completed' when it
\* is of today and completed, and valid otherwise, with that order; a call it
\* refuses changes no order.
C26_ValidateTokenForPickup ==
    [][/\ \A token \in QrTokens \ {NoToken} :
            /\ Carriers(token) = {} <=> validateTokenForPickup(token) = "Token not found"
            /\ \A i \in Carriers(token) :
                  /\ ReadByToken(token) = i
                  /\ validateTokenForPickup(token) =
                        IF ~SameCivilDay(orders[i].created_at, now)
                        THEN "Token expired. Valid only on order date."
                        ELSE IF orders[i].status = "completed"
                        THEN "Order already completed"
                        ELSE "valid"
       /\ ByTokenRejected
            => /\ orders' = orders
               /\ last'.result = validateTokenForPickup(last'.token)]_vars

\* A token of today's completed order has been refused as already completed
C26_Witness ==
    /\ last.op = "byToken" /\ last.result = "Order already completed"
    /\ Found(last.id)
    /\ orders[last.id].token = last.token
    /\ orders[last.id].status = "completed"
    /\ SameCivilDay(orders[last.id].created_at, now)

\* A step of a cancel request: its response, or its slot moving on
CancelStep ==
    \/ last' # last /\ last'.op = "cancel"
    \/ \E w \in Reqs : req[w].op = "cancel" /\ req'[w] # req[w]

C28_TokensPassTokenParam ==
    /\ \A i \in Stored : schemas_tokenParam(orders[i].token)
    /\ \A w \in Reqs : req[w].op = "create" => schemas_tokenParam(req[w].token)
    /\ last.op = "atomic" => schemas_tokenParam(last.token)

\* C29: no two stored orders carry the same gateway payment id.
C29_OneOrderPerPayment ==
    \A i, j \in Stored :
        i # j /\ orders[i].payment_id # "none"
            => orders[i].payment_id # orders[j].payment_id

\* The scan route answers in this step without calling updateOrderStatus
ScanAnswered == last' # last /\ last'.op = "scan" /\ req' = req

\* C30: a scan in flight towards updateOrderStatus carries the stored token of
\* its order, and an order that a scan's write completes has the scanned token;
\* a scan whose token differs from the token of the order it read is answered
\* 'Token mismatch', whatever the order's day and status, and changes nothing;
\* a payload with a required field missing is answered 'Invalid QR data:
\* Missing required fields', whether the store answers or not, and changes
\* nothing.
C30_ScanTokenMismatch ==
    [][/\ \A w \in Reqs :
            req[w].op = "scan"
                => /\ Found(req[w].id)
                   /\ orders[req[w].id].token = req[w].token
                   /\ orders'[req[w].id].token = req[w].token
       /\ (ScanAnswered /\ last'.token = NoToken)
            => /\ last'.result = "Invalid QR data: Missing required fields"
               /\ orders' = orders
       /\ (ScanAnswered /\ last'.token # NoToken /\ ReadById(last'.id)
                        /\ orders[last'.id].token # last'.token)
            => /\ last'.result = "Token mismatch"
               /\ orders' = orders]_vars

\* A scan that named a ready order of an earlier day with another token has
\* been answered 'Token mismatch', and the order is still ready
C30_Witness ==
    /\ last.op = "scan" /\ last.result = "Token mismatch"
    /\ Found(last.id)
    /\ orders[last.id].token # last.token
    /\ orders[last.id].status = "ready"
    /\ ~SameCivilDay(orders[last.id].created_at, now)

====
